---- MODULE Spec2Model ----
(***************************************************************************)
(* Arbiata / Arbfarm: the settlement contract (Arbfarm.sol) and the        *)
(* decision endpoint (/api/decide), modelled as state machines.            *)
(*                                                                         *)
(* Settlement ledger: one action per external call of the contract.  An    *)
(* EVM call is atomic: it either commits every write it made or reverts    *)
(* all of them, so each call is one action; the writes a call makes before *)
(* it fails are computed explicitly (the "dirty" state) and discarded by   *)
(* Revert.  Results of calls into other contracts (wrapped-asset contract, *)
(* swap router, ERC20 tokens) are inputs drawn from small sets.            *)
(*                                                                         *)
(* Amounts are uint256 in the source; the bounds below keep every value    *)
(* far below 2^256, so checked arithmetic can only fail by underflow,      *)
(* which is modelled.                                                      *)
(***************************************************************************)
EXTENDS Integers, Sequences, FiniteSets, TLC

\* ------------------------------------------------------------------ bounds
\* largest msg.value / amount / amountIn / minProfit argument of a call
MaxAmount == 2
\* largest amount the router hands back on the second leg, and largest
\* token balance an ERC20 balanceOf call reports
MaxOut == 2
\* cap on the number of calls that commit (reverted calls are not counted)
MaxCalls == 2

\* ---------------------------------------------------------------- accounts
\* externally owned accounts that call the contract
Users == {"alice", "bob"}
\* address of the wrapped-asset contract (immutable WETH)
WETH == "weth"
\* every key of the userBalances / userTransactions mappings that is touched
Accounts == Users \cup {WETH}

VARIABLES
    userBalances,      \* mapping(address => uint256) userBalances
    userTransactions,  \* mapping(address => Transaction[]) userTransactions
    events,            \* the contract's emitted-event history, in order
    ethBalance,        \* address(this).balance
    last,              \* the call just made: its arguments, its outcome and
                       \* the state it was made in
    roundTrip          \* per user: the deposit(X) it made last, if it has
                       \* made no other call since

ledgerVars == <<userBalances, userTransactions, events, ethBalance,
                last, roundTrip>>

\* the decision endpoint (/api/decide), one request at a time
VARIABLES
    phase,             \* "idle", "advisory" (awaiting generateContent), "done"
    body,              \* the request body being decided
    response,          \* the response returned for it
    path               \* what led to the response: "validation", "error",
                       \* "gate", "advisory" (the parsed reply was used), or
                       \* the reason the fallback was taken (FallbackPaths)

decideVars == <<phase, body, response, path>>

VARIABLES
    market,     \* what the estimators find on the chains and at the bridge
    cycle,      \* "idle", "running" or "done": where POST /api/estimate is
    amountFloat, \* the amount of the running estimate, in ETH
    tasks,      \* the promises of the estimators
    estimate    \* the response of the estimate endpoint and the locals of POST

estimateVars == <<market, cycle, amountFloat, tasks, estimate>>

VARIABLES
    detecting,   \* "idle", "fetching" or "done": where GET /api/detect is
    poolData,    \* the promises of the two price reads
    opportunity  \* the response of the detection endpoint

detectVars == <<detecting, poolData, opportunity>>

VARIABLES
    reading,            \* "idle", "ticks", "read" or "done": where
                        \* getETHLiquidity is
    liquidityUSD,       \* the pool's liquidity in millions of dollars
    window,             \* what the queried ticks held, by kind
    liquidityDepthData, \* what getLiquidityDepth returns, by kind of element
    depthCategory       \* what categorizeLiquidityDepth gives

liquidityVars ==
    <<reading, liquidityUSD, window, liquidityDepthData, depthCategory>>

VARIABLES
    connection,   \* "none", "initial" (the first fetch is awaited),
                  \* "streaming" (the response was returned)
    aborted,      \* request.signal has fired abort
    listening,    \* the abort listener is installed
    intervalId,   \* the periodic timer is set
    open,         \* the stream's controller accepts messages
    inFlight,     \* the calls of fetchPrices that have not finished
    queue,        \* the messages enqueued on the stream and not yet read
    lateFetches   \* the calls of fetchPrices started after the abort

streamVars ==
    <<connection, aborted, listening, intervalId, open, inFlight, queue,
      lateFetches>>

\* what a request to one endpoint, or a call of the contract, leaves alone:
\* the contract's ledger is the only state the endpoints could share, and
\* none of them writes it
notLedger ==
    <<decideVars, estimateVars, detectVars, liquidityVars, streamVars>>
notDecide ==
    <<ledgerVars, estimateVars, detectVars, liquidityVars, streamVars>>
notEstimate ==
    <<ledgerVars, decideVars, detectVars, liquidityVars, streamVars>>
notDetect ==
    <<ledgerVars, decideVars, estimateVars, liquidityVars, streamVars>>
notLiquidity ==
    <<ledgerVars, decideVars, estimateVars, detectVars, streamVars>>
notStream ==
    <<ledgerVars, decideVars, estimateVars, detectVars, liquidityVars>>

\* ------------------------------------------------------------ ledger state
\* the contract's storage, event history and native balance as one value
Ledger == [bal |-> userBalances, txs |-> userTransactions,
           ev |-> events, eth |-> ethBalance]

EmptyLedger == [bal |-> [a \in Accounts |-> 0],
                txs |-> [a \in Accounts |-> << >>],
                ev  |-> << >>,
                eth |-> 0]

Deposited(user, amount) ==
    [type |-> "Deposited", user |-> user, amount |-> amount]
Withdrawn(user, amount) ==
    [type |-> "Withdrawn", user |-> user, amount |-> amount]
ArbitrageExecuted(user, ethBefore, ethAfter, profit) ==
    [type |-> "ArbitrageExecuted", user |-> user, ethBefore |-> ethBefore,
     ethAfter |-> ethAfter, profit |-> profit]

\* struct Transaction; its timestamp field (block.timestamp) is written and
\* never read by the contract, and is left out
Transaction(amountIn, profit, isExecuteArb) ==
    [amountIn |-> amountIn, profit |-> profit, isExecuteArb |-> isExecuteArb]

\* outcome of one call: committed state st, and what the call measured
Outcome(ok, err, st, profit, before, after) ==
    [ok |-> ok, err |-> err, st |-> st, profit |-> profit,
     before |-> before, after |-> after]

\* (mutant) a failure that returns without undoing the writes made so far
RevertKeepsWrites(pre, dirty, err) == Outcome(FALSE, err, dirty, 0, 0, 0)

\* a failed require / a failed external call / an arithmetic panic: the EVM
\* discards every write of the call (dirty) and the state is the pre-call one
Revert(pre, dirty, err) == Outcome(FALSE, err, pre, 0, 0, 0)

Success(st, profit, before, after) == Outcome(TRUE, "", st, profit, before, after)


\* ------------------------------------------------- the contract's functions
\* receive() / the body shared with deposit(): the value has arrived with the
\* call, the sender's recorded balance is credited and Deposited is emitted
Credited(s, sender, value) ==
    [s EXCEPT !.eth = @ + value,
              !.bal[sender] = @ + value,
              !.ev = Append(@, Deposited(sender, value))]

\* receive() external payable: a plain native-asset transfer, any msg.value
receive(s, sender, value) ==
    LET st == Credited(s, sender, value)
    IN  Success(st, 0, s.eth, st.eth)

\* deposit() external payable
deposit(s, sender, value) ==
    IF ~(value > 0) THEN Revert(s, s, "Zero deposit")
    ELSE LET st == Credited(s, sender, value)
         IN  Success(st, 0, s.eth, st.eth)

\* (mutant) the balance check of withdraw compares with the contract's holdings
HasBalanceOfContract(s, sender, amount) == s.eth >= amount

\* the balance check of withdraw: require(userBalances[msg.sender] >= amount)
HasBalance(s, sender, amount) == s.bal[sender] >= amount

\* withdraw(uint256 amount); payable(msg.sender).transfer(amount) fails when
\* the contract holds less native asset than amount (callers are externally
\* owned accounts, which accept every transfer)
withdraw(s, sender, amount) ==
    IF ~(amount > 0) THEN Revert(s, s, "Zero withdraw")
    ELSE IF ~HasBalance(s, sender, amount)
    THEN Revert(s, s, "Insufficient balance")
    ELSE LET s1 == [s EXCEPT !.bal[sender] = @ - amount]
         IN  IF s1.eth < amount
             THEN Revert(s, s1, "transfer failed")
             ELSE LET st == [s1 EXCEPT !.eth = @ - amount,
                                       !.ev = Append(@, Withdrawn(sender, amount))]
                  IN  Success(st, 0, s.eth, st.eth)

\* What the contracts called by executeArb do in one run: whether
\* IWETH.deposit succeeds, whether each exactInputSingle returns and what it
\* returns, whether IWETH.withdraw succeeds.  A step after a failed one is
\* never reached; its fields are then left at FALSE / 0.
ExternalRun(wrapOk, swap1Ok, usdcReceived, swap2Ok, wethReceived, unwrapOk) ==
    [wrapOk |-> wrapOk, swap1Ok |-> swap1Ok, usdcReceived |-> usdcReceived,
     swap2Ok |-> swap2Ok, wethReceived |-> wethReceived, unwrapOk |-> unwrapOk]

ExternalRuns ==
    {   ExternalRun(FALSE, FALSE, 0, FALSE, 0, FALSE),  \* wrap fails
        ExternalRun(TRUE, FALSE, 0, FALSE, 0, FALSE),   \* first leg reverts
        ExternalRun(TRUE, TRUE, 0, FALSE, 0, FALSE),    \* first leg returns 0
        ExternalRun(TRUE, TRUE, 1, FALSE, 0, FALSE),    \* second leg reverts
        ExternalRun(TRUE, TRUE, 1, TRUE, 0, FALSE) }    \* second leg returns 0
    \cup { ExternalRun(TRUE, TRUE, 1, TRUE, w, unwrapOk) :
             w \in 1..MaxOut, unwrapOk \in BOOLEAN }

\* (mutant) the final check only asks for no loss
ProfitCheckNoLoss(profit, minProfit) == profit >= 0

\* the final check of executeArb: require(profit >= minProfit, ...)
ProfitCheck(profit, minProfit) == profit >= minProfit

\* (mutant) the credit gives back the principal and forgets the profit
ArbCreditPrincipal(amountIn, profit) == amountIn

\* the credit of executeArb: userBalances[msg.sender] += amountIn + profit
ArbCredit(amountIn, profit) == amountIn + profit

\* (mutant) the balance check of executeArb is missing
ArbHasBalanceUnchecked(s, sender, amountIn) == TRUE

\* the balance check of executeArb:
\* require(userBalances[msg.sender] >= amountIn, "Insufficient balance")
ArbHasBalance(s, sender, amountIn) == s.bal[sender] >= amountIn

\* (mutant) the record is filed under the wrapped-asset contract's address
PushMisfiled(txs, sender, tx) == [txs EXCEPT ![WETH] = Append(@, tx)]

\* userTransactions[msg.sender].push(Transaction({...}))
Push(txs, sender, tx) == [txs EXCEPT ![sender] = Append(@, tx)]

\* executeArb(uint256 amountIn, uint256 minProfit)
executeArb(s, sender, amountIn, minProfit, x) ==
    IF ~(amountIn > 0) THEN Revert(s, s, "Zero amount")
    ELSE IF ~ArbHasBalance(s, sender, amountIn)
    THEN Revert(s, s, "Insufficient balance")
    ELSE
    LET ethBefore == s.eth
        \* userBalances[msg.sender] -= amountIn
        s1 == [s EXCEPT !.bal[sender] = @ - amountIn]
    IN
    \* IWETH(WETH).deposit{value: amountIn}()
    IF ~x.wrapOk \/ s1.eth < amountIn
    THEN Revert(s, s1, "WETH deposit failed")
    ELSE
    LET s2 == [s1 EXCEPT !.eth = @ - amountIn] IN
    \* swapRouter.exactInputSingle(wethToUsdc)
    IF ~x.swap1Ok THEN Revert(s, s2, "router reverted")
    ELSE IF ~(x.usdcReceived > 0) THEN Revert(s, s2, "WETH->USDC swap failed")
    \* swapRouter.exactInputSingle(usdcToWeth)
    ELSE IF ~x.swap2Ok THEN Revert(s, s2, "router reverted")
    ELSE IF ~(x.wethReceived > 0) THEN Revert(s, s2, "USDC->WETH swap failed")
    \* IWETH(WETH).withdraw(wethReceived): the wrapped-asset contract sends
    \* the native asset back, which runs receive() with msg.sender = WETH
    ELSE IF ~x.unwrapOk THEN Revert(s, s2, "WETH withdraw failed")
    ELSE
    LET s3 == receive(s2, WETH, x.wethReceived).st
        ethAfter == s3.eth
    IN
    \* uint256 profit = ethAfter - ethBefore (checked arithmetic)
    IF ethAfter < ethBefore THEN Revert(s, s3, "Panic: underflow")
    ELSE
    LET profit == ethAfter - ethBefore IN
    IF ~ProfitCheck(profit, minProfit)
    THEN Revert(s, s3, "Unprofitable: profit below minimum")
    ELSE
    LET st == [s3 EXCEPT
                 !.bal[sender] = @ + ArbCredit(amountIn, profit),
                 !.txs = Push(@, sender, Transaction(amountIn, profit, TRUE)),
                 !.ev = Append(@, ArbitrageExecuted(sender, ethBefore, ethAfter, profit))]
    IN  Success(st, profit, ethBefore, ethAfter)

\* What the contracts called by executeArbitrageFlexible do in one run:
\* tokenIn is an address the caller supplies, so the two balanceOf answers
\* and the success of the two swaps are whatever those contracts do.
FlexibleRuns ==
    { y \in [balanceBefore : 0..MaxOut, swapsOk : BOOLEAN, balanceAfter : 0..MaxOut] :
        ~y.swapsOk => y.balanceAfter = 0 }

\* executeArbitrageFlexible(tokenIn, tokenOut, feeBuy, feeSell, amountIn,
\* minAmountOutBuy, minAmountOutSell)
executeArbitrageFlexible(s, sender, amountIn, y) ==
    IF ~(amountIn > 0) THEN Revert(s, s, "Zero amount")
    ELSE IF ~(s.bal[sender] >= amountIn)
    THEN Revert(s, s, "Insufficient balance")
    ELSE
    LET balanceBefore == y.balanceBefore
        s1 == [s EXCEPT !.bal[sender] = @ - amountIn]
    IN
    IF ~y.swapsOk THEN Revert(s, s1, "router reverted")
    ELSE
    LET balanceAfter == y.balanceAfter IN
    IF ~(balanceAfter > balanceBefore) THEN Revert(s, s1, "NO_PROFIT")
    ELSE
    LET profit == balanceAfter - balanceBefore
        st == [s1 EXCEPT
                 !.bal[sender] = @ + amountIn + profit,
                 !.txs = Push(@, sender, Transaction(amountIn, profit, FALSE)),
                 !.ev = Append(@, ArbitrageExecuted(sender, balanceBefore, balanceAfter, profit))]
    IN  Success(st, profit, balanceBefore, balanceAfter)


\* ------------------------------------------------------------ ledger actions
\* the record of a call: who called what with which arguments, the outcome,
\* and the ledger (pre) and the caller's open round trip (rt) before the call
Receipt(op, user, amount, minProfit, r, pre, rt) ==
    [op |-> op, user |-> user, amount |-> amount, minProfit |-> minProfit,
     ok |-> r.ok, err |-> r.err, profit |-> r.profit,
     before |-> r.before, after |-> r.after, pre |-> pre, rt |-> rt]

NoRoundTrip == [open |-> FALSE, amount |-> 0, pre |-> 0]

NoReceipt ==
    [op |-> "none", user |-> "none", amount |-> 0, minProfit |-> 0,
     ok |-> FALSE, err |-> "", profit |-> 0, before |-> 0, after |-> 0,
     pre |-> EmptyLedger, rt |-> NoRoundTrip]

\* one call of the contract by user: the outcome becomes the new state.
\* The record of the previous call has been read (Observe) before the next
\* call is made; the ledger itself is not affected by that.
Call(op, user, amount, minProfit, outcome) ==
    /\ last = NoReceipt
    /\ \E r \in {outcome} :
        /\ userBalances' = r.st.bal
        /\ userTransactions' = r.st.txs
        /\ events' = r.st.ev
        /\ ethBalance' = r.st.eth
        /\ last' = Receipt(op, user, amount, minProfit, r, Ledger, roundTrip[user])
        /\ roundTrip' = [roundTrip EXCEPT ![user] =
                            IF op = "deposit" /\ r.ok
                            THEN [open |-> TRUE, amount |-> amount,
                                  pre |-> userBalances[user]]
                            ELSE NoRoundTrip]
    /\ UNCHANGED notLedger

Receive(u, value) ==
    Call("receive", u, value, 0, receive(Ledger, u, value))

Deposit(u, value) ==
    Call("deposit", u, value, 0, deposit(Ledger, u, value))

Withdraw(u, amount) ==
    Call("withdraw", u, amount, 0, withdraw(Ledger, u, amount))

ExecuteArb(u, amountIn, minProfit, x) ==
    Call("executeArb", u, amountIn, minProfit,
         executeArb(Ledger, u, amountIn, minProfit, x))

ExecuteArbitrageFlexible(u, amountIn, y) ==
    Call("executeArbitrageFlexible", u, amountIn, 0,
         executeArbitrageFlexible(Ledger, u, amountIn, y))

\* the caller reads the record of the call it made
Observe ==
    /\ last # NoReceipt
    /\ last' = NoReceipt
    /\ UNCHANGED <<userBalances, userTransactions, events, ethBalance,
                   roundTrip>>
    /\ UNCHANGED notLedger

LedgerInit ==
    /\ userBalances = EmptyLedger.bal
    /\ userTransactions = EmptyLedger.txs
    /\ events = EmptyLedger.ev
    /\ ethBalance = EmptyLedger.eth
    /\ last = NoReceipt
    /\ roundTrip = [u \in Users |-> NoRoundTrip]

\* The inputs a call can meet beyond its own arguments.  A call that fails
\* its own checks first calls no other contract, and executeArb reads
\* minProfit only after the unwrap step has succeeded: inputs that are never
\* read are fixed (no external run, minProfit 0) instead of enumerated.
NoExternalRun == ExternalRun(FALSE, FALSE, 0, FALSE, 0, FALSE)

NoFlexibleRun == [balanceBefore |-> 0, swapsOk |-> FALSE, balanceAfter |-> 0]

PassesChecks(u, amountIn) == amountIn > 0 /\ userBalances[u] >= amountIn

ArbInputs(u, amountIn) ==
    IF PassesChecks(u, amountIn)
    THEN { <<minProfit, x>> \in (0..MaxAmount) \X ExternalRuns :
             x.unwrapOk \/ minProfit = 0 }
    ELSE { <<minProfit, NoExternalRun>> : minProfit \in 0..MaxAmount }

FlexibleInputs(u, amountIn) ==
    IF PassesChecks(u, amountIn) THEN FlexibleRuns ELSE {NoFlexibleRun}

\* a call that commits emits exactly one event naming its caller (the unwrap
\* step of executeArb emits one more, naming the wrapped-asset contract)
IsCallerEvent(e) == e.user \in Users

\* the ledger is explored up to a bounded number of committed calls
Within(cap) == Len(SelectSeq(events', IsCallerEvent)) <= cap

\* every call of the contract
LedgerNext(cap) ==
    \/ \E u \in Users, value \in 0..MaxAmount :
          Receive(u, value) /\ Within(cap)
    \/ \E u \in Users, value \in 0..MaxAmount :
          Deposit(u, value) /\ Within(cap)
    \/ \E u \in Users, amount \in 0..MaxAmount :
          Withdraw(u, amount) /\ Within(cap)
    \/ \E u \in Users, amountIn \in 0..MaxAmount :
          \E in \in ArbInputs(u, amountIn) :
             ExecuteArb(u, amountIn, in[1], in[2]) /\ Within(cap)
    \/ \E u \in Users, amountIn \in 0..MaxAmount :
          \E y \in FlexibleInputs(u, amountIn) :
             ExecuteArbitrageFlexible(u, amountIn, y) /\ Within(cap)
    \/ Observe

\* deposits, withdrawals and flexible executions only
TransferNext(cap) ==
    \/ \E u \in Users, value \in 1..MaxAmount :
          Deposit(u, value) /\ Within(cap)
    \/ \E u \in Users, amount \in 1..MaxAmount :
          Withdraw(u, amount) /\ Within(cap)
    \/ \E u \in Users, amountIn \in 1..MaxAmount :
          \E y \in FlexibleInputs(u, amountIn) :
             ExecuteArbitrageFlexible(u, amountIn, y) /\ Within(cap)
    \/ Observe

\* =========================================================== /api/decide
\* Amounts of money are whole US dollars and the spread is whole percent;
\* the source compares ratios of floating-point numbers with constants,
\* which is done here by cross-multiplication (a / b * 100 > c  iff
\* a * 100 > c * b for b > 0).  Confidence is in hundredths.

\* ---------------------------------------------------------- more bounds
\* largest netProfitUsd of a request (the smallest is -1)
MaxNet == 6
\* largest spreadPercent of a request (the smallest is MaxSpread - 2)
MaxSpread == 6
\* largest gasCostUsd of a request
MaxGas == 2
\* largest slippageUsd of a request
MaxSlippage == 3

\* ------------------------------------------------- the source's constants
MinProfitUsd == 2          \* if (body.netProfitUsd < 2)
SpreadCeiling == 5         \* if (body.spreadPercent > 5)
MevTradeSizeUsd == 50      \* data.tradeSizeUsd > 50
ExecuteProfitUsd == 5      \* data.netProfitUsd >= 5

\* -------------------------------------------------------------- values
\* a JSON field that holds a number, or is absent (undefined)
Num(n) == [t |-> "number", v |-> n]
Undefined == [t |-> "undefined", v |-> 0]
\* a non-numeric string, and the number NaN
Text == [t |-> "string", v |-> 0]
NaN == [t |-> "NaN", v |-> 0]

IsUndefined(x) == x.t = "undefined"

RiskLevels == {"low", "medium", "high"}
\* the optional slippageRisk / mevRisk / timingRisk fields of DecideRequest,
\* absent or one of its three strings
DeclaredRisks == {"undefined", "LOW", "MEDIUM", "HIGH"}
\* the body is unvalidated JSON: a field may also hold a truthy value that is
\* no string (a number), on which .toLowerCase is not a function
SuppliedRisks == DeclaredRisks \cup {"number"}

\* String.prototype.toLowerCase on the values of the risk fields
toLowerCase(r) ==
    CASE r = "LOW" -> "low"
      [] r = "MEDIUM" -> "medium"
      [] r = "HIGH" -> "high"
      [] OTHER -> r

\* the request bodies: DecideRequest.  feesUsd and liquidityUsd are read
\* only when the prompt is built; promptFields says whether they are numbers
Bodies ==
    [netProfitUsd : {Undefined} \cup {Num(n) : n \in -1..MaxNet},
     spreadPercent : {Undefined} \cup {Num(n) : n \in (MaxSpread - 2)..MaxSpread},
     gasCostUsd : 0..MaxGas,
     slippageUsd : 0..MaxSlippage,
     tradeSizeUsd : {MevTradeSizeUsd, MevTradeSizeUsd + 1},
     slippageRisk : SuppliedRisks,
     mevRisk : SuppliedRisks,
     timingRisk : SuppliedRisks,
     promptFields : BOOLEAN]

NoBody ==
    [netProfitUsd |-> Undefined, spreadPercent |-> Undefined, gasCostUsd |-> 0,
     slippageUsd |-> 0, tradeSizeUsd |-> 0, slippageRisk |-> "undefined",
     mevRisk |-> "undefined", timingRisk |-> "undefined", promptFields |-> FALSE]

\* ------------------------------------------------------ helper functions
\* inferSlippageRisk(data); called only with netProfitUsd defined
inferSlippageRisk(data) ==
    LET net == data.netProfitUsd.v
        overHalf == IF net > 0 THEN data.slippageUsd * 100 > 50 * net ELSE TRUE
        overQuarter == IF net > 0 THEN data.slippageUsd * 100 > 25 * net ELSE TRUE
    IN  IF overHalf THEN "high" ELSE IF overQuarter THEN "medium" ELSE "low"

\* inferMEVRisk(data)
inferMEVRisk(data) ==
    IF data.slippageUsd > 2 /\ data.tradeSizeUsd > MevTradeSizeUsd THEN "high"
    ELSE IF data.slippageUsd > 1 THEN "medium"
    ELSE "low"

\* (mutant) the thresholds are 25% and 15% of the profit
inferTimingRiskTight(data) ==
    LET net == data.netProfitUsd.v
        overHalf == IF net > 0 THEN data.gasCostUsd * 100 > 25 * net ELSE TRUE
        overThird == IF net > 0 THEN data.gasCostUsd * 100 > 15 * net ELSE TRUE
    IN  IF overHalf THEN "high" ELSE IF overThird THEN "medium" ELSE "low"

\* inferTimingRisk(data)
inferTimingRisk(data) ==
    LET net == data.netProfitUsd.v
        overHalf == IF net > 0 THEN data.gasCostUsd * 100 > 50 * net ELSE TRUE
        overThird == IF net > 0 THEN data.gasCostUsd * 100 > 30 * net ELSE TRUE
    IN  IF overHalf THEN "high" ELSE IF overThird THEN "medium" ELSE "low"

\* (mutant) the thresholds are exclusive
calculateProfitMarginStrict(data) ==
    LET net == data.netProfitUsd.v
        gas == data.gasCostUsd
    IN  IF gas > 0 /\ net > 5 * gas THEN "safe"
        ELSE IF gas > 0 /\ net > 3 * gas THEN "acceptable"
        ELSE "thin"

\* calculateProfitMargin(data): profitGasRatio = gas > 0 ? net / gas : 0
calculateProfitMargin(data) ==
    LET net == data.netProfitUsd.v
        gas == data.gasCostUsd
    IN  IF gas > 0 /\ net >= 5 * gas THEN "safe"
        ELSE IF gas > 0 /\ net >= 3 * gas THEN "acceptable"
        ELSE "thin"

RiskAnalysis(timingRisk, slippageRisk, mevRisk, profitMargin) ==
    [gasRisk |-> timingRisk, slippageRisk |-> slippageRisk,
     mevRisk |-> mevRisk, profitMargin |-> profitMargin]

\* NextResponse.json({success, decision: {decision, reason, confidence,
\* riskAnalysis}}, {status}); consulted records whether generateContent was
\* called for this request
Response(status, decision, reason, confidence, riskAnalysis, consulted) ==
    [status |-> status, success |-> (status = 200), decision |-> decision,
     reason |-> reason, confidence |-> confidence,
     riskAnalysis |-> riskAnalysis, consulted |-> consulted]

NoResponse ==
    Response(0, "", "", Undefined, RiskAnalysis("", "", "", ""), FALSE)

\* body.slippageRisk.toLowerCase(), body.mevRisk.toLowerCase() or
\* body.timingRisk.toLowerCase() throws a TypeError
RiskThrows(b) ==
    b.slippageRisk = "number" \/ b.mevRisk = "number" \/ b.timingRisk = "number"

\* the response of the outer catch block
ErrorResponse ==
    Response(500, "SKIP", "Error processing decision request", Num(0),
             RiskAnalysis("high", "high", "high", "thin"), FALSE)

\* the risk levels used for a body: the supplied ones, else the inferred ones
Risks(b) ==
    [slippage |-> IF b.slippageRisk # "undefined"
                  THEN toLowerCase(b.slippageRisk) ELSE inferSlippageRisk(b),
     mev |-> IF b.mevRisk # "undefined"
             THEN toLowerCase(b.mevRisk) ELSE inferMEVRisk(b),
     timing |-> IF b.timingRisk # "undefined"
                THEN toLowerCase(b.timingRisk) ELSE inferTimingRisk(b)]

Analysis(b) ==
    LET r == Risks(b)
    IN  RiskAnalysis(r.timing, r.slippage, r.mev, calculateProfitMargin(b))

\* (mutant) the fallback executes without asking for all risks to be low
fallbackDecisionLenient(data, slippageRisk, mevRisk, timingRisk, profitMargin, consulted) ==
    LET risks == <<slippageRisk, mevRisk, timingRisk>>
        hasHighRisk == \E i \in 1..3 : risks[i] = "high"
        mediumRiskCount == Cardinality({i \in 1..3 : risks[i] = "medium"})
        analysis == RiskAnalysis(timingRisk, slippageRisk, mevRisk, profitMargin)
    IN  IF hasHighRisk \/ mediumRiskCount >= 2
        THEN Response(200, "SKIP",
                      "Overall risk assessment is HIGH - execution unsafe",
                      Num(85), analysis, consulted)
        ELSE IF profitMargin = "thin"
        THEN Response(200, "SKIP",
                      "Profit margin too thin relative to gas cost",
                      Num(80), analysis, consulted)
        ELSE IF data.netProfitUsd.v >= ExecuteProfitUsd /\ profitMargin = "safe"
        THEN Response(200, "EXECUTE", "Net profit with low overall risk",
                      Num(75), analysis, consulted)
        ELSE Response(200, "SKIP",
                      "Risk-reward ratio not favorable for execution",
                      Num(70), analysis, consulted)

\* fallbackDecision(data, slippageRisk, mevRisk, timingRisk, profitMargin)
fallbackDecision(data, slippageRisk, mevRisk, timingRisk, profitMargin, consulted) ==
    LET risks == <<slippageRisk, mevRisk, timingRisk>>
        hasHighRisk == \E i \in 1..3 : risks[i] = "high"
        mediumRiskCount == Cardinality({i \in 1..3 : risks[i] = "medium"})
        allLowRisk == \A i \in 1..3 : risks[i] = "low"
        analysis == RiskAnalysis(timingRisk, slippageRisk, mevRisk, profitMargin)
    IN  IF hasHighRisk \/ mediumRiskCount >= 2
        THEN Response(200, "SKIP",
                      "Overall risk assessment is HIGH - execution unsafe",
                      Num(85), analysis, consulted)
        ELSE IF profitMargin = "thin"
        THEN Response(200, "SKIP",
                      "Profit margin too thin relative to gas cost",
                      Num(80), analysis, consulted)
        ELSE IF data.netProfitUsd.v >= ExecuteProfitUsd /\ allLowRisk
                /\ profitMargin = "safe"
        THEN Response(200, "EXECUTE", "Net profit with low overall risk",
                      Num(75), analysis, consulted)
        ELSE Response(200, "SKIP",
                      "Risk-reward ratio not favorable for execution",
                      Num(70), analysis, consulted)

Fallback(b, consulted) ==
    LET r == Risks(b)
    IN  fallbackDecision(b, r.slippage, r.mev, r.timing,
                         calculateProfitMargin(b), consulted)

\* (mutant) the first early exit takes negative profits only
NegativeProfit(b) == b.netProfitUsd.v < 0

\* the first deterministic early exit: if (body.netProfitUsd <= 0)
NonPositiveProfit(b) == b.netProfitUsd.v <= 0

\* (mutant) the minimum check gives way to the spread check, as if the
\* spread check came first
BelowMinimumAfterSpread(b) ==
    b.netProfitUsd.v < MinProfitUsd /\ ~(b.spreadPercent.v > SpreadCeiling)

\* the second: if (body.netProfitUsd < 2)
BelowMinimum(b) == b.netProfitUsd.v < MinProfitUsd

\* (mutant) the ceiling taken as a fraction of 1 and scaled to percent again
AnomalousSpreadAsFraction(b) == b.spreadPercent.v > SpreadCeiling * 100

\* the third: if (body.spreadPercent > 5)
AnomalousSpread(b) == b.spreadPercent.v > SpreadCeiling

\* (mutant) the gate without its minimum-profit check
GateWithoutMinimum(b) ==
    IF IsUndefined(b.netProfitUsd) \/ IsUndefined(b.spreadPercent)
    THEN Response(400, "SKIP", "Missing required simulation data", Num(0),
                  RiskAnalysis("high", "high", "high", "thin"), FALSE)
    ELSE IF RiskThrows(b)
    THEN ErrorResponse
    ELSE IF NonPositiveProfit(b)
    THEN Response(200, "SKIP", "Net profit is negative or zero", Num(100),
                  Analysis(b), FALSE)
    ELSE IF AnomalousSpread(b)
    THEN Response(200, "SKIP",
                  "Spread >5% appears anomalous - possible bad data",
                  Num(90), Analysis(b), FALSE)
    ELSE Response(0, "pass", "", Undefined, Analysis(b), FALSE)

\* POST up to the advisory call: validation, the choice of the risk levels
\* and the deterministic early exits, in the order of the source.  "pass" when none of them returns.
Gate(b) ==
    IF IsUndefined(b.netProfitUsd) \/ IsUndefined(b.spreadPercent)
    THEN Response(400, "SKIP", "Missing required simulation data", Num(0),
                  RiskAnalysis("high", "high", "high", "thin"), FALSE)
    ELSE IF RiskThrows(b)
    THEN ErrorResponse
    ELSE IF NonPositiveProfit(b)
    THEN Response(200, "SKIP", "Net profit is negative or zero", Num(100),
                  Analysis(b), FALSE)
    ELSE IF BelowMinimum(b)
    THEN Response(200, "SKIP", "Net profit below $2 minimum threshold",
                  Num(95), Analysis(b), FALSE)
    ELSE IF AnomalousSpread(b)
    THEN Response(200, "SKIP",
                  "Spread >5% appears anomalous - possible bad data",
                  Num(90), Analysis(b), FALSE)
    ELSE Response(0, "pass", "", Undefined, Analysis(b), FALSE)

\* ------------------------------------------------- the advisory capability
\* what generateContent and the parsing of its text can come to: the call
\* throws, the text holds no {...}, JSON.parse throws, or an object is parsed
\* whose decision, reason and confidence fields are whatever the model wrote.
\* The three fields are used independently, so each is varied on its own.
Parsed(decision, reason, confidence) ==
    [kind |-> "parsed", decision |-> decision, reason |-> reason,
     confidence |-> confidence]

Failed(kind) ==
    [kind |-> kind, decision |-> "", reason |-> "", confidence |-> Undefined]

AdvisoryReplies ==
    {Failed("throws"), Failed("no json"), Failed("parse error")}
    \cup {Parsed(d, "because", Num(50)) : d \in {"", "EXECUTE", "SKIP", "MAYBE"}}
    \cup {Parsed("EXECUTE", r, Num(50)) : r \in {"", "because"}}
    \cup {Parsed("EXECUTE", "because", c) :
            c \in {Undefined, Text, Num(-100), Num(0), Num(100), Num(200)}}

\* Math.min(1, Math.max(0, parsed.confidence || 0.5)), in hundredths; a
\* non-numeric string makes Math.max return NaN
Confidence(c) ==
    LET given == IF c.t = "undefined" \/ c.t = "NaN" \/ (c.t = "number" /\ c.v = 0)
                 THEN Num(50) ELSE c
    IN  IF given.t = "number"
        THEN Num(IF given.v < 0 THEN 0 ELSE IF given.v > 100 THEN 100 ELSE given.v)
        ELSE NaN

\* (mutant) no inner catch: a failure of the advisory call reaches the outer
\* catch block
AdvisedPropagates(b, reply) ==
    IF reply.kind = "parsed"
    THEN Response(200,
                  IF reply.decision = "" THEN "SKIP" ELSE reply.decision,
                  IF reply.reason = "" THEN "AI decision completed" ELSE reply.reason,
                  Confidence(reply.confidence), Analysis(b), TRUE)
    ELSE IF reply.kind = "throws" THEN ErrorResponse
    ELSE Fallback(b, TRUE)

\* the response built from the advisory reply, or the fallback; absent
\* (undefined, "") decision and reason fields are written "" in a reply
Advised(b, reply) ==
    IF reply.kind = "parsed"
    THEN Response(200,
                  IF reply.decision = "" THEN "SKIP" ELSE reply.decision,
                  IF reply.reason = "" THEN "AI decision completed" ELSE reply.reason,
                  Confidence(reply.confidence), Analysis(b), TRUE)
    ELSE Fallback(b, TRUE)

\* why fallbackDecision is called: GEMINI_API_KEY is not set, building the
\* prompt throws, generateContent (or response.text()) throws, the text
\* holds no {...}, JSON.parse throws
FallbackPaths ==
    {"unconfigured", "prompt throws", "throws", "no json", "parse error"}

\* -------------------------------------------------------------- actions
\* POST: a request arrives; aiKey says whether GEMINI_API_KEY is set.  The
\* handler runs to its return, or to the await of generateContent.
Post(b, aiKey) ==
    /\ phase = "idle"
    /\ body' = b
    /\ LET g == Gate(b) IN
        IF g.decision # "pass"
        THEN /\ phase' = "done" /\ response' = g
             /\ path' = CASE g.status = 400 -> "validation"
                          [] g.status = 500 -> "error"
                          [] OTHER -> "gate"
        ELSE IF ~aiKey
        THEN phase' = "done" /\ response' = Fallback(b, FALSE) /\ path' = "unconfigured"
        \* building the prompt calls toFixed on every field: it throws on
        \* an absent one, inside the try block
        ELSE IF ~b.promptFields
        THEN phase' = "done" /\ response' = Fallback(b, FALSE) /\ path' = "prompt throws"
        ELSE phase' = "advisory" /\ response' = NoResponse /\ path' = "none"
    /\ UNCHANGED notDecide

\* generateContent settles, and the handler runs to its return
AdvisoryReturns(reply) ==
    /\ phase = "advisory"
    /\ phase' = "done"
    /\ response' = Advised(body, reply)
    /\ path' = IF reply.kind = "parsed" THEN "advisory" ELSE reply.kind
    /\ UNCHANGED <<body>>
    /\ UNCHANGED notDecide

\* the response has been sent; the endpoint takes the next request
Respond ==
    /\ phase = "done"
    /\ phase' = "idle"
    /\ body' = NoBody
    /\ response' = NoResponse
    /\ path' = "none"
    /\ UNCHANGED notDecide

DecideInit ==
    /\ phase = "idle"
    /\ body = NoBody
    /\ response = NoResponse
    /\ path = "none"

DecideNext ==
    \/ phase = "idle" /\ \E b \in Bodies, aiKey \in BOOLEAN : Post(b, aiKey)
    \/ phase = "advisory" /\ \E reply \in AdvisoryReplies : AdvisoryReturns(reply)
    \/ Respond

\* ========================================================== /api/estimate
\* One estimate cycle: POST fans the five estimator calls out with
\* Promise.all and joins them.  The estimators share no state; what they
\* read is the chain (fee market, pool price) and the bridge's quoting
\* service, which change or fail on their own.  Native amounts are in
\* thousandths of an ETH, USD amounts in cents, the request's amount in ETH.
\*
\* The route imports the estimators from functions/*.js, which wrap the
\* services of the gas and bridge module; the wrappers and the whole MEV
\* estimator are not part of the sources at hand and follow the design
\* document: an estimator hands on what its service computed, a failure of
\* a non-critical estimator (bridge-slippage quote, MEV estimate) becomes
\* its default, any other failure rejects.

\* ---------------------------------------------------------- more bounds
\* largest amount of a request, in ETH
MaxEth == 1
\* largest gas cost of one transaction, in thousandths of an ETH
MaxGasMilli == 1
\* largest relay fee the quoting service quotes, in thousandths of an ETH
MaxQuoteMilli == 1
\* largest MEV cost and largest AMM slippage, in dollars
MaxCostUsd == 1

\* ------------------------------------------------- the source's constants
FallbackEthPrice == 3500   \* getEthPriceUsd: return 3500
MockEthPrice == 3500       \* POST: const ethPriceUsd = 3500
BuyPerMille == 998         \* POST: buyPrice = ethPriceUsd * 0.998
SellPerMille == 1002       \* POST: sellPrice = ethPriceUsd * 1.002
DefaultRelayerFeeBps == 10 \* calculateAcrossBridgeFees: relayerFeeBps = 10

\* ------------------------------------------------------------- the chain
\* the ETH/USD price the oracle pool shows: off the fallback by enough to
\* show in the cents of a thousandth of an ETH
PoolEthPrice == FallbackEthPrice + 14

\* what the quoting service answers: a relay fee, or nothing usable
Quotes ==
    {[ok |-> FALSE, total |-> 0]}
    \cup {[ok |-> TRUE, total |-> q] : q \in 1..MaxQuoteMilli}

\* what the estimators find at one moment: the gas cost of a transaction and
\* the answer of the quoting service
Markets == [gas : 1..MaxGasMilli, quote : Quotes]

\* -------------------------------------------------------------- values
\* Number.prototype.toFixed(2) of the non-negative value n / d cents: the
\* nearest whole number of cents
toFixed2(n, d) == (2 * n + d) \div (2 * d)

\* the five elements of the Promise.all of POST; the gas estimator is itself
\* a Promise.all of its two legs
Estimators == {"bridging", "gasDeposit", "gasSwap", "mev", "bridgeSlippage",
               "ammSlippage"}

\* a promise: pending, or settled with what the estimator returned.  price is
\* the ETH/USD value the estimator converted with (0: none), eth the native
\* cost, usd the USD cost it reports, relayerFee the relay fee within eth,
\* outputAmount what the bridge delivers, error the read whose failure was
\* thrown
Pending ==
    [state |-> "pending", eth |-> 0, usd |-> 0, price |-> 0, relayerFee |-> 0,
     outputAmount |-> 0, quoted |-> FALSE, defaulted |-> FALSE, error |-> ""]

Fulfilled(eth, usd, price, quoted) ==
    [state |-> "fulfilled", eth |-> eth, usd |-> usd, price |-> price,
     relayerFee |-> 0, outputAmount |-> 0, quoted |-> quoted,
     defaulted |-> FALSE, error |-> ""]

Rejected(error) == [Pending EXCEPT !.state = "rejected", !.error = error]

\* the default a non-critical estimator resolves with when it fails
Defaulted == [Pending EXCEPT !.state = "fulfilled", !.defaulted = TRUE]

\* ------------------------------------------------------------- services
\* getEthPriceUsd(): the pool's price, or 3500 when the read fails
getEthPriceUsd(priceOk) == IF priceOk THEN PoolEthPrice ELSE FallbackEthPrice

\* gasCostUsd: (parseFloat(gasCostInEth) * ethPriceUsd).toFixed(2)
gasCostUsd(milli, ethPriceUsd) == toFixed2(milli * ethPriceUsd, 10)

\* calculateBaseDepositGasFees(amountInEth): estimateGas and getFeeData
\* (rpcOk), then getEthPriceUsd
calculateBaseDepositGasFees(m, rpcOk, priceOk) ==
    IF ~rpcOk THEN Rejected("fee data")
    ELSE LET ethPriceUsd == getEthPriceUsd(priceOk)
         IN  Fulfilled(m.gas, gasCostUsd(m.gas, ethPriceUsd), ethPriceUsd, FALSE)

\* calculateArbitrumSwapGasFees(amountInEth, feeTier): as the deposit leg;
\* getExpectedSwapOutput catches its own failure
calculateArbitrumSwapGasFees(m, rpcOk, priceOk) ==
    IF ~rpcOk THEN Rejected("fee data")
    ELSE LET ethPriceUsd == getEthPriceUsd(priceOk)
         IN  Fulfilled(m.gas, gasCostUsd(m.gas, ethPriceUsd), ethPriceUsd, FALSE)

\* calculateCompleteFlowGasFees(amountInEth, feeTier): Promise.all of the
\* two legs; totalGasCostUsd is the sum of the two reported USD costs
calculateCompleteFlowGasFees(depositFees, swapFees) ==
    IF depositFees.state = "rejected" THEN depositFees
    ELSE IF swapFees.state = "rejected" THEN swapFees
    ELSE IF depositFees.state = "pending" \/ swapFees.state = "pending"
    THEN Pending
    ELSE Fulfilled(depositFees.eth + swapFees.eth,
                   depositFees.usd + swapFees.usd, 0, FALSE)

\* the relay fee of calculateAcrossBridgeFees, in thousandths of an ETH: the
\* quoted total, or amountInWei * 10 / 10000 when the quote is not usable
RelayerFee(amountInEth, quote) ==
    IF quote.ok THEN quote.total
    ELSE (amountInEth * 1000 * DefaultRelayerFeeBps) \div 10000

\* (mutant) the failure of the quote is thrown
calculateAcrossBridgeFeesQuoteThrows(amountInEth, m, rpcOk, priceOk) ==
    IF ~m.quote.ok THEN Rejected("quote")
    ELSE IF ~rpcOk THEN Rejected("fee data")
    ELSE LET ethPriceUsd == getEthPriceUsd(priceOk)
             totalRelayerFee == RelayerFee(amountInEth, m.quote)
             totalFeesEth == m.gas + totalRelayerFee
         IN  [Fulfilled(totalFeesEth,
                        toFixed2(totalFeesEth * ethPriceUsd, 10),
                        ethPriceUsd, m.quote.ok)
                 EXCEPT !.relayerFee = totalRelayerFee,
                        !.outputAmount = amountInEth * 1000 - totalRelayerFee]

\* calculateAcrossBridgeFees(amountInEth): the quote (caught when it fails),
\* getFeeData on Base (rpcOk), getEthPriceUsd
calculateAcrossBridgeFees(amountInEth, m, rpcOk, priceOk) ==
    IF ~rpcOk THEN Rejected("fee data")
    ELSE LET ethPriceUsd == getEthPriceUsd(priceOk)
             totalRelayerFee == RelayerFee(amountInEth, m.quote)
             totalFeesEth == m.gas + totalRelayerFee
         IN  [Fulfilled(totalFeesEth,
                        toFixed2(totalFeesEth * ethPriceUsd, 10),
                        ethPriceUsd, m.quote.ok)
                 EXCEPT !.relayerFee = totalRelayerFee,
                        !.outputAmount = amountInEth * 1000 - totalRelayerFee]

\* calculateAcrossBridgeSlippage(amountInEth): throws when the quote request
\* fails or answers with a status that is not OK
calculateAcrossBridgeSlippage(amountInEth, m, priceOk) ==
    IF ~m.quote.ok THEN Rejected("quote")
    ELSE LET ethPriceUsd == getEthPriceUsd(priceOk)
         IN  Fulfilled(m.quote.total, toFixed2(m.quote.total * ethPriceUsd, 10),
                       ethPriceUsd, TRUE)

\* calculateETHtoUSDCSlippage(ethAmount, fee): the slippage amount in USDC,
\* or the error of the pool read or of the quoter rethrown
calculateETHtoUSDCSlippage(ok, usd) ==
    IF ok THEN Fulfilled(0, 100 * usd, 0, FALSE) ELSE Rejected("pool")

\* ------------------------------------------------------------ estimators
\* getBridgingFees(amount)
getBridgingFees(r) == r

\* getCompleteFlowGasFees(amount, 3000), one leg of it
getCompleteFlowGasFees(r) == r

\* (mutant) bridgeSlippage hands a failure of its service on
bridgeSlippageRethrows(r) == r

\* bridgeSlippage(amount)
bridgeSlippage(r) == IF r.state = "rejected" THEN Defaulted ELSE r

\* ammSlippageETHtoUSDC(amount, 3000)
ammSlippageETHtoUSDC(r) == r

\* getMevFees(amount)
getMevFees(ok, usd) ==
    IF ok THEN Fulfilled(0, 100 * usd, 0, FALSE) ELSE Defaulted

\* ------------------------------------------------------------- the route
NotANumber == [t |-> "string", v |-> 0]

\* the amount field of a request body: missing, not numeric, or a number
EstimateAmounts == {Undefined, NotANumber} \cup {Num(n) : n \in 0..MaxEth}

\* !amount || isNaN(parseFloat(amount)) || parseFloat(amount) <= 0
InvalidAmount(a) == a.t # "number" \/ a.v <= 0

AllPending == [k \in Estimators |-> Pending]

\* the five promises POST hands to Promise.all
Promises(t) ==
    [bridging       |-> t["bridging"],
     gas            |-> getCompleteFlowGasFees(
                            calculateCompleteFlowGasFees(t["gasDeposit"],
                                                         t["gasSwap"])),
     mev            |-> t["mev"],
     bridgeSlippage |-> t["bridgeSlippage"],
     ammSlippage    |-> t["ammSlippage"]]

PromiseNames == {"bridging", "gas", "mev", "bridgeSlippage", "ammSlippage"}

\* Promise.all rejects as soon as one of its promises rejects
AnyRejected(t) == \E k \in PromiseNames : Promises(t)[k].state = "rejected"

\* and fulfils when all of them have
AllFulfilled(t) == \A k \in PromiseNames : Promises(t)[k].state = "fulfilled"

NoEstimate ==
    [status |-> 0, success |-> FALSE, gasCostUsd |-> 0, slippageUsd |-> 0,
     feesUsd |-> 0, bridgingFeesUsd |-> 0, netProfitUsd |-> 0,
     grossProfitUsd |-> 0, bridgeSlippageUsd |-> 0, ammSlippageUsd |-> 0,
     totalCostsUsd |-> 0]

\* the responses without an estimate: 400 of the validation, 500 of the catch
Failure(status) == [NoEstimate EXCEPT !.status = status]

\* grossProfitUsd = amountFloat * (sellPrice - buyPrice), in cents
GrossProfit(amountInEth) ==
    (amountInEth * (MockEthPrice * SellPerMille - MockEthPrice * BuyPerMille))
        \div 10

\* (mutant) the total leaves the bridging fees out
AggregateWithoutBridging(amountInEth, p) ==
    LET gas == p.gas.usd
        bridge == p.bridgeSlippage.usd
        amm == p.ammSlippage.usd
        slippage == bridge + amm
        fees == p.mev.usd
        bridging == p.bridging.usd
        gross == GrossProfit(amountInEth)
        total == gas + slippage + fees
    IN  [status |-> 200, success |-> TRUE, gasCostUsd |-> gas,
         slippageUsd |-> slippage, feesUsd |-> fees,
         bridgingFeesUsd |-> bridging, netProfitUsd |-> gross - total,
         grossProfitUsd |-> gross, bridgeSlippageUsd |-> bridge,
         ammSlippageUsd |-> amm, totalCostsUsd |-> total]

\* the cost aggregation of POST over the five results
Aggregate(amountInEth, p) ==
    LET gas == p.gas.usd
        bridge == p.bridgeSlippage.usd
        amm == p.ammSlippage.usd
        slippage == bridge + amm
        fees == p.mev.usd
        bridging == p.bridging.usd
        gross == GrossProfit(amountInEth)
        total == gas + slippage + fees + bridging
    IN  [status |-> 200, success |-> TRUE, gasCostUsd |-> gas,
         slippageUsd |-> slippage, feesUsd |-> fees,
         bridgingFeesUsd |-> bridging, netProfitUsd |-> gross - total,
         grossProfitUsd |-> gross, bridgeSlippageUsd |-> bridge,
         ammSlippageUsd |-> amm, totalCostsUsd |-> total]

\* ------------------------------------------------------------- actions
\* the fee market or the quoting service changes while a cycle runs
MarketMoves ==
    /\ cycle = "running"
    /\ \E m \in Markets \ {market} : market' = m
    /\ UNCHANGED <<cycle, amountFloat, tasks, estimate>>
    /\ UNCHANGED notEstimate

\* POST /api/estimate: the validation, then the fan-out
PostEstimate(a) ==
    /\ cycle = "idle"
    /\ IF InvalidAmount(a)
       THEN /\ cycle' = "done"
            /\ estimate' = Failure(400)
            /\ UNCHANGED <<amountFloat, tasks>>
       ELSE /\ cycle' = "running"
            /\ amountFloat' = a.v
            /\ tasks' = AllPending
            /\ estimate' = NoEstimate
    /\ UNCHANGED market
    /\ UNCHANGED notEstimate

\* an estimator can settle.  Once a promise has rejected, Promise.all has
\* rejected and what the others do no longer reaches the response.
CanSettle(k) ==
    /\ cycle = "running"
    /\ tasks[k].state = "pending"
    /\ ~AnyRejected(tasks)

\* getBridgingFees(amount) settles
BridgingSettles(rpcOk, priceOk) ==
    /\ CanSettle("bridging")
    /\ tasks' = [tasks EXCEPT !["bridging"] =
                     getBridgingFees(
                         calculateAcrossBridgeFees(amountFloat, market, rpcOk,
                                                   priceOk))]
    /\ UNCHANGED <<market, cycle, amountFloat, estimate>>
    /\ UNCHANGED notEstimate

\* the deposit leg of getCompleteFlowGasFees(amount, 3000) settles
GasDepositSettles(rpcOk, priceOk) ==
    /\ CanSettle("gasDeposit")
    /\ tasks' = [tasks EXCEPT !["gasDeposit"] =
                     calculateBaseDepositGasFees(market, rpcOk, priceOk)]
    /\ UNCHANGED <<market, cycle, amountFloat, estimate>>
    /\ UNCHANGED notEstimate

\* the swap leg of getCompleteFlowGasFees(amount, 3000) settles
GasSwapSettles(rpcOk, priceOk) ==
    /\ CanSettle("gasSwap")
    /\ tasks' = [tasks EXCEPT !["gasSwap"] =
                     calculateArbitrumSwapGasFees(market, rpcOk, priceOk)]
    /\ UNCHANGED <<market, cycle, amountFloat, estimate>>
    /\ UNCHANGED notEstimate

\* getMevFees(amount) settles
MevSettles(ok, usd) ==
    /\ CanSettle("mev")
    /\ tasks' = [tasks EXCEPT !["mev"] = getMevFees(ok, usd)]
    /\ UNCHANGED <<market, cycle, amountFloat, estimate>>
    /\ UNCHANGED notEstimate

\* bridgeSlippage(amount) settles
BridgeSlippageSettles(priceOk) ==
    /\ CanSettle("bridgeSlippage")
    /\ tasks' = [tasks EXCEPT !["bridgeSlippage"] =
                     bridgeSlippage(
                         calculateAcrossBridgeSlippage(amountFloat, market,
                                                       priceOk))]
    /\ UNCHANGED <<market, cycle, amountFloat, estimate>>
    /\ UNCHANGED notEstimate

\* ammSlippageETHtoUSDC(amount, 3000) settles
AmmSlippageSettles(ok, usd) ==
    /\ CanSettle("ammSlippage")
    /\ tasks' = [tasks EXCEPT !["ammSlippage"] =
                     ammSlippageETHtoUSDC(calculateETHtoUSDCSlippage(ok, usd))]
    /\ UNCHANGED <<market, cycle, amountFloat, estimate>>
    /\ UNCHANGED notEstimate

\* the join: the catch of POST answers 500 when Promise.all rejected, the
\* aggregation answers when it fulfilled
Join ==
    /\ cycle = "running"
    /\ AnyRejected(tasks) \/ AllFulfilled(tasks)
    /\ cycle' = "done"
    /\ estimate' = IF AnyRejected(tasks) THEN Failure(500)
                   ELSE Aggregate(amountFloat, Promises(tasks))
    /\ UNCHANGED <<market, amountFloat, tasks>>
    /\ UNCHANGED notEstimate

\* the response is sent and the cycle's values are dropped
EstimateSent ==
    /\ cycle = "done"
    /\ cycle' = "idle"
    /\ amountFloat' = 0
    /\ tasks' = AllPending
    /\ estimate' = NoEstimate
    /\ UNCHANGED market
    /\ UNCHANGED notEstimate

EstimateInit ==
    /\ market = [gas |-> 1, quote |-> [ok |-> TRUE, total |-> 1]]
    /\ cycle = "idle"
    /\ amountFloat = 0
    /\ tasks = AllPending
    /\ estimate = NoEstimate

EstimateNext ==
    \/ MarketMoves
    \/ \E a \in EstimateAmounts : PostEstimate(a)
    \/ \E rpcOk, priceOk \in BOOLEAN : BridgingSettles(rpcOk, priceOk)
    \/ \E rpcOk, priceOk \in BOOLEAN : GasDepositSettles(rpcOk, priceOk)
    \/ \E rpcOk, priceOk \in BOOLEAN : GasSwapSettles(rpcOk, priceOk)
    \/ \E ok \in BOOLEAN, usd \in 0..MaxCostUsd : MevSettles(ok, usd)
    \/ \E priceOk \in BOOLEAN : BridgeSlippageSettles(priceOk)
    \/ \E ok \in BOOLEAN, usd \in 0..MaxCostUsd : AmmSlippageSettles(ok, usd)
    \/ Join
    \/ EstimateSent

\* =========================================================== /api/detect
\* GET reads the ETH/USDC price of the pool on each chain, computes the
\* spread and names the chain to buy on and the chain to sell on.  Prices are
\* in dollars, the spread in thousandths of a percent.
\*
\* getEthUsdcPrice and classifyLiquidity (lib/dex/uniswap) and
\* calculateSpread and isActionableSpread (lib/math/profit) are not part of
\* the sources at hand and follow the design document: the spread percent
\* is the difference of the two prices relative to the lower one, and it is
\* actionable when it reaches the minimum.

\* ---------------------------------------------------------- more bounds
\* lowest price a pool shows, in dollars
PriceFloor == 2000
\* widest gap between two pool prices, in dollars
MaxPriceDelta == 3

\* ------------------------------------------------- the source's constants
MIN_SPREAD_PCT == 100      \* const MIN_SPREAD_PCT = 0.1, in 1/1000 percent

\* -------------------------------------------------------------- values
Chains == {"base", "arbitrum"}

PoolPrices == PriceFloor..(PriceFloor + MaxPriceDelta)

LiquidityClasses == {"low", "medium", "high"}

\* a read of one pool: pending, rejected, or its price and the class
\* classifyLiquidity gives its liquidity
NoPoolData == [state |-> "pending", price |-> 0, liquidity |-> "low"]

PoolRead(price, liquidity) ==
    [state |-> "fulfilled", price |-> price, liquidity |-> liquidity]

PoolReadFailed == [NoPoolData EXCEPT !.state = "rejected"]

\* getEthUsdcPrice(provider, chain)
getEthUsdcPrice(ok, price, liquidity) ==
    IF ok THEN PoolRead(price, liquidity) ELSE PoolReadFailed

\* calculateSpread(basePrice, arbitrumPrice), in thousandths of a percent
calculateSpread(basePrice, arbitrumPrice) ==
    LET lower == IF basePrice < arbitrumPrice THEN basePrice ELSE arbitrumPrice
        higher == IF basePrice < arbitrumPrice THEN arbitrumPrice ELSE basePrice
    IN  ((higher - lower) * 100000) \div lower

\* isActionableSpread(spreadPct, MIN_SPREAD_PCT)
isActionableSpread(spreadPct, minSpreadPct) == spreadPct >= minSpreadPct

NoOpportunity ==
    [status |-> 0, success |-> FALSE, found |-> FALSE, spreadPct |-> 0,
     buyChain |-> "base", sellChain |-> "arbitrum", buyPrice |-> 0,
     sellPrice |-> 0, liquidityBuy |-> "low", liquiditySell |-> "low",
     actionable |-> FALSE]

\* the response of the catch block
DetectionError == [NoOpportunity EXCEPT !.status = 500]

\* (mutant) buys where the price is higher
OpportunityMisdirected(baseData, arbitrumData) ==
    LET basePrice == baseData.price
        arbitrumPrice == arbitrumData.price
        spreadPct == calculateSpread(basePrice, arbitrumPrice)
        actionable == isActionableSpread(spreadPct, MIN_SPREAD_PCT)
        buyOnBase == basePrice > arbitrumPrice
    IN  [status |-> 200, success |-> TRUE, found |-> actionable,
         spreadPct |-> spreadPct,
         buyChain |-> IF buyOnBase THEN "base" ELSE "arbitrum",
         sellChain |-> IF buyOnBase THEN "arbitrum" ELSE "base",
         buyPrice |-> IF buyOnBase THEN basePrice ELSE arbitrumPrice,
         sellPrice |-> IF buyOnBase THEN arbitrumPrice ELSE basePrice,
         liquidityBuy |-> IF buyOnBase THEN baseData.liquidity
                          ELSE arbitrumData.liquidity,
         liquiditySell |-> IF buyOnBase THEN arbitrumData.liquidity
                           ELSE baseData.liquidity,
         actionable |-> actionable]

\* the response of GET for the two reads
Opportunity(baseData, arbitrumData) ==
    LET basePrice == baseData.price
        arbitrumPrice == arbitrumData.price
        spreadPct == calculateSpread(basePrice, arbitrumPrice)
        actionable == isActionableSpread(spreadPct, MIN_SPREAD_PCT)
        buyOnBase == basePrice < arbitrumPrice
    IN  [status |-> 200, success |-> TRUE, found |-> actionable,
         spreadPct |-> spreadPct,
         buyChain |-> IF buyOnBase THEN "base" ELSE "arbitrum",
         sellChain |-> IF buyOnBase THEN "arbitrum" ELSE "base",
         buyPrice |-> IF buyOnBase THEN basePrice ELSE arbitrumPrice,
         sellPrice |-> IF buyOnBase THEN arbitrumPrice ELSE basePrice,
         liquidityBuy |-> IF buyOnBase THEN baseData.liquidity
                          ELSE arbitrumData.liquidity,
         liquiditySell |-> IF buyOnBase THEN arbitrumData.liquidity
                           ELSE baseData.liquidity,
         actionable |-> actionable]

\* ------------------------------------------------------------- actions
\* GET /api/detect: both reads are started
GetDetect ==
    /\ detecting = "idle"
    /\ detecting' = "fetching"
    /\ poolData' = [c \in Chains |-> NoPoolData]
    /\ opportunity' = NoOpportunity
    /\ UNCHANGED notDetect

\* the read of the Base pool settles
BasePriceSettles(ok, price, liquidity) ==
    /\ detecting = "fetching"
    /\ poolData["base"].state = "pending"
    /\ poolData["arbitrum"].state # "rejected"
    /\ poolData' = [poolData EXCEPT
                       !["base"] = getEthUsdcPrice(ok, price, liquidity)]
    /\ UNCHANGED <<detecting, opportunity>>
    /\ UNCHANGED notDetect

\* the read of the Arbitrum pool settles
ArbitrumPriceSettles(ok, price, liquidity) ==
    /\ detecting = "fetching"
    /\ poolData["arbitrum"].state = "pending"
    /\ poolData["base"].state # "rejected"
    /\ poolData' = [poolData EXCEPT
                       !["arbitrum"] = getEthUsdcPrice(ok, price, liquidity)]
    /\ UNCHANGED <<detecting, opportunity>>
    /\ UNCHANGED notDetect

\* Promise.all settles: the catch answers when a read rejected, the rest of
\* the try block when both fulfilled
DetectJoin ==
    /\ detecting = "fetching"
    /\ \/ \E c \in Chains : poolData[c].state = "rejected"
       \/ \A c \in Chains : poolData[c].state = "fulfilled"
    /\ detecting' = "done"
    /\ opportunity' =
          IF \E c \in Chains : poolData[c].state = "rejected"
          THEN DetectionError
          ELSE Opportunity(poolData["base"], poolData["arbitrum"])
    /\ UNCHANGED poolData
    /\ UNCHANGED notDetect

\* the response is sent
DetectSent ==
    /\ detecting = "done"
    /\ detecting' = "idle"
    /\ poolData' = [c \in Chains |-> NoPoolData]
    /\ opportunity' = NoOpportunity
    /\ UNCHANGED notDetect

DetectInit ==
    /\ detecting = "idle"
    /\ poolData = [c \in Chains |-> NoPoolData]
    /\ opportunity = NoOpportunity

DetectNext ==
    \/ GetDetect
    \/ \E ok \in BOOLEAN, price \in PoolPrices, liquidity \in LiquidityClasses :
          BasePriceSettles(ok, price, liquidity)
    \/ \E ok \in BOOLEAN, price \in PoolPrices, liquidity \in LiquidityClasses :
          ArbitrumPriceSettles(ok, price, liquidity)
    \/ DetectJoin
    \/ DetectSent

\* ======================================================= getETHLiquidity
\* getETHLiquidity reads the pool, asks getLiquidityDepth for the ticks
\* around the current one and classifies the depth.  The ticks of the window
\* and the elements of the result are told apart by kind only, so both are
\* kept as counts per kind.  USD liquidity is in millions of dollars.

\* ---------------------------------------------------------- more bounds
\* largest USD liquidity of a pool, in millions of dollars
MaxLiquidityM == 5

\* ------------------------------------------------- the source's constants
MaxTicks == 40             \* ticksData.slice(0, 40)
UsdLow == 1                \* usdLow: 1000000
UsdMid == 5                \* usdMid: 5000000
TicksLow == 10             \* ticksLow: 10
TicksMid == 30             \* ticksMid: 30

\* -------------------------------------------------------------- values
\* what poolContract.ticks(tick) can give for one tick: a positive gross
\* liquidity, a gross liquidity of zero, or an error
TickKinds == {"positive", "zero", "failed"}

NoTicks == [k \in TickKinds |-> 0]

\* the elements an array of results can hold: an entry with liquidityGross,
\* undefined, or null
ResultKinds == {"entry", "undefined", "null"}

NoResults == [k \in ResultKinds |-> 0]

\* the callback of batch.map: an entry when liquidityGross > 0n, nothing
\* (undefined) when it is not, null when the read throws
batchPromise(kind) ==
    CASE kind = "positive" -> "entry"
      [] kind = "zero" -> "undefined"
      [] kind = "failed" -> "null"

\* results.push(...batchResults.filter(r => r !== null)) for one element
Pushed(results, element) ==
    IF element # "null" THEN [results EXCEPT ![element] = @ + 1] ELSE results

\* liquidityDepthData.length
Length(results) ==
    results["entry"] + results["undefined"] + results["null"]

\* categorizeLiquidityDepth(liquidityUSD, ticksWithLiquidity, tickData): the
\* reduce over tickData reads tick.liquidityGross of every element, which
\* throws on undefined and on null
categorizeLiquidityDepth(usd, ticksWithLiquidity, tickData) ==
    IF tickData["undefined"] > 0 \/ tickData["null"] > 0 THEN "throws"
    ELSE LET usdScore == IF usd >= UsdMid THEN 2
                         ELSE IF usd >= UsdLow THEN 1 ELSE 0
             tickScore == IF ticksWithLiquidity >= TicksMid THEN 2
                          ELSE IF ticksWithLiquidity >= TicksLow THEN 1 ELSE 0
             score == usdScore + tickScore
         IN  IF score >= 3 THEN "high"
             ELSE IF score >= 1 THEN "mid"
             ELSE "low"

\* ------------------------------------------------------------- actions
\* getETHLiquidity(chain, fee) up to the call of getLiquidityDepth: the pool
\* is read
GetETHLiquidity(usd) ==
    /\ reading = "idle"
    /\ reading' = "ticks"
    /\ liquidityUSD' = usd
    /\ window' = NoTicks
    /\ liquidityDepthData' = NoResults
    /\ depthCategory' = "none"
    /\ UNCHANGED notLiquidity

\* getLiquidityDepth: one more of the 40 ticks is read and its result pushed
TickRead(kind) ==
    /\ reading = "ticks"
    /\ window["positive"] + window["zero"] + window["failed"] < MaxTicks
    /\ window' = [window EXCEPT ![kind] = @ + 1]
    /\ liquidityDepthData' = Pushed(liquidityDepthData, batchPromise(kind))
    /\ UNCHANGED <<reading, liquidityUSD, depthCategory>>
    /\ UNCHANGED notLiquidity

\* getLiquidityDepth returns
DepthReturned ==
    /\ reading = "ticks"
    /\ window["positive"] + window["zero"] + window["failed"] = MaxTicks
    /\ reading' = "read"
    /\ UNCHANGED <<liquidityUSD, window, liquidityDepthData, depthCategory>>
    /\ UNCHANGED notLiquidity

\* getETHLiquidity classifies the depth
Categorize ==
    /\ reading = "read"
    /\ reading' = "done"
    /\ depthCategory' =
          categorizeLiquidityDepth(liquidityUSD, Length(liquidityDepthData),
                                   liquidityDepthData)
    /\ UNCHANGED <<liquidityUSD, window, liquidityDepthData>>
    /\ UNCHANGED notLiquidity

\* getETHLiquidity returns or throws
LiquidityReturned ==
    /\ reading = "done"
    /\ reading' = "idle"
    /\ liquidityUSD' = 0
    /\ window' = NoTicks
    /\ liquidityDepthData' = NoResults
    /\ depthCategory' = "none"
    /\ UNCHANGED notLiquidity

LiquidityInit ==
    /\ reading = "idle"
    /\ liquidityUSD = 0
    /\ window = NoTicks
    /\ liquidityDepthData = NoResults
    /\ depthCategory = "none"

LiquidityNext ==
    \/ \E usd \in 0..MaxLiquidityM : GetETHLiquidity(usd)
    \/ \E kind \in TickKinds : TickRead(kind)
    \/ DepthReturned
    \/ Categorize
    \/ LiquidityReturned

\* ========================================================= price stream
\* GET of the price stream for one connection: the first fetchPrices is
\* awaited, then the 10-second timer is set, the abort listener is added and
\* the response is returned, all in one turn of the event loop.  The client
\* can disconnect at any moment from the arrival of the request on.

\* ---------------------------------------------------------- more bounds
\* most calls of fetchPrices running at once (a fetch can outlast a tick)
MaxInFlight == 3
\* most fetches counted after the abort
MaxLate == 2
\* most messages waiting on the stream
MaxQueued == 3

\* -------------------------------------------------------------- values
\* what one fetchPrices finds: the pools' prices, or an error of the pools,
\* for which it makes up prices and sets the warning
FetchOutcomes == {"live", "mock"}

\* send(event, data): controller.enqueue throws once the stream is closed,
\* which the catch of fetchPrices answers with another send, which throws
\* again, so nothing is enqueued
send(isOpen, event, enqueued) ==
    IF isOpen THEN Append(enqueued, event) ELSE enqueued

\* the message fetchPrices sends for what it found
PriceUpdate(outcome) ==
    IF outcome = "mock" THEN "price-update with warning" ELSE "price-update"

\* ------------------------------------------------------------- actions
\* GET: createSSEResponse() and the first fetchPrices() is called
GetStream ==
    /\ connection = "none"
    /\ connection' = "initial"
    /\ open' = TRUE
    /\ inFlight' = 1
    /\ UNCHANGED <<aborted, listening, intervalId, queue, lateFetches>>
    /\ UNCHANGED notStream

\* await fetchPrices() returns: setInterval, addEventListener('abort', ...),
\* return new Response(stream).  A listener added to a signal that has
\* already fired is never called.
InitialFetchCompletes(outcome) ==
    /\ connection = "initial"
    /\ Len(queue) < MaxQueued
    /\ inFlight' = inFlight - 1
    /\ queue' = send(open, PriceUpdate(outcome), queue)
    /\ intervalId' = TRUE
    /\ listening' = TRUE
    /\ connection' = "streaming"
    /\ UNCHANGED <<aborted, open, lateFetches>>
    /\ UNCHANGED notStream

\* the timer fires and calls fetchPrices
Tick ==
    /\ intervalId
    /\ inFlight < MaxInFlight
    /\ lateFetches < MaxLate
    /\ inFlight' = inFlight + 1
    /\ lateFetches' = IF aborted THEN lateFetches + 1 ELSE lateFetches
    /\ UNCHANGED <<connection, aborted, listening, intervalId, open,
                   queue>>
    /\ UNCHANGED notStream

\* a fetchPrices called by the timer finishes
TickFetchCompletes(outcome) ==
    /\ connection = "streaming"
    /\ inFlight > 0
    /\ Len(queue) < MaxQueued
    /\ inFlight' = inFlight - 1
    /\ queue' = send(open, PriceUpdate(outcome), queue)
    /\ UNCHANGED <<connection, aborted, listening, intervalId, open,
                   lateFetches>>
    /\ UNCHANGED notStream

\* the client disconnects: request.signal fires abort, and the listener, if
\* it is installed, clears the timer and closes the stream
Abort ==
    /\ connection # "none"
    /\ ~aborted
    /\ aborted' = TRUE
    /\ intervalId' = IF listening THEN FALSE ELSE intervalId
    /\ open' = IF listening THEN FALSE ELSE open
    /\ UNCHANGED <<connection, listening, inFlight, queue, lateFetches>>
    /\ UNCHANGED notStream

\* the client reads the next message of the response
ClientReads ==
    /\ connection = "streaming"
    /\ ~aborted
    /\ queue # <<>>
    /\ queue' = Tail(queue)
    /\ UNCHANGED <<connection, aborted, listening, intervalId, open,
                   inFlight, lateFetches>>
    /\ UNCHANGED notStream

\* the connection is over: aborted, no timer, no fetch running
Closed ==
    /\ connection = "streaming"
    /\ aborted /\ ~intervalId /\ inFlight = 0
    /\ connection' = "none"
    /\ aborted' = FALSE
    /\ listening' = FALSE
    /\ queue' = <<>>
    /\ lateFetches' = 0
    /\ UNCHANGED <<intervalId, open, inFlight>>
    /\ UNCHANGED notStream

StreamInit ==
    /\ connection = "none"
    /\ aborted = FALSE
    /\ listening = FALSE
    /\ intervalId = FALSE
    /\ open = FALSE
    /\ inFlight = 0
    /\ queue = <<>>
    /\ lateFetches = 0

StreamNext ==
    \/ GetStream
    \/ \E outcome \in FetchOutcomes : InitialFetchCompletes(outcome)
    \/ Tick
    \/ \E outcome \in FetchOutcomes : TickFetchCompletes(outcome)
    \/ Abort
    \/ ClientReads
    \/ Closed

\* ======================================================= specifications
vars == <<userBalances, userTransactions, events, ethBalance, last, roundTrip,
          phase, body, response, path, market, cycle, amountFloat, tasks,
          estimate, detecting, poolData, opportunity, reading, liquidityUSD,
          window, liquidityDepthData, depthCategory, connection, aborted,
          listening, intervalId, open, inFlight, queue, lateFetches>>

Init ==
    /\ LedgerInit /\ DecideInit /\ EstimateInit /\ DetectInit
    /\ LiquidityInit /\ StreamInit

Next == LedgerNext(MaxCalls)

\* the settlement ledger under every call of the contract
Spec == Init /\ [][Next]_vars

\* the ledger under deposits, withdrawals and flexible executions, two calls
\* deeper
SpecTransfers == Init /\ [][TransferNext(MaxCalls + 2)]_vars

\* the decision endpoint
SpecDecide == Init /\ [][DecideNext]_vars

\* the estimate endpoint
SpecEstimate == Init /\ [][EstimateNext]_vars

\* the detection endpoint
SpecDetect == Init /\ [][DetectNext]_vars

\* the liquidity service
SpecLiquidity == Init /\ [][LiquidityNext]_vars

\* the price stream
SpecStream == Init /\ [][StreamNext]_vars

\* the decision endpoint with the handler's own progress: once the response
\* is ready it is sent.  Neither the arrival of requests nor the settling of
\* generateContent, which is up to the remote service, is assumed.
SpecDecideFair == SpecDecide /\ WF_vars(Respond)

\* ================================================= settlement-ledger claims
\* the call just made
Called(op) == last.op = op
Caller == last.user

IsPrefix(a, b) == Len(a) <= Len(b) /\ SubSeq(b, 1, Len(a)) = a

ArbEvents(ev) == SelectSeq(ev, LAMBDA e : e.type = "ArbitrageExecuted")

\* C1: after every executeArb call, either the call succeeded and the profit
\* it measured (the contract's native balance after the swap sequence minus
\* before) is at least minProfit, or it reverted and the caller's balance,
\* the caller's log and the event history are what they were before the call.
C1_ProfitOrNoop ==
    Called("executeArb") =>
        \/ /\ last.ok
           /\ last.profit = ethBalance - last.pre.eth
           /\ last.profit >= last.minProfit
        \/ /\ ~last.ok
           /\ userBalances[Caller] = last.pre.bal[Caller]
           /\ userTransactions[Caller] = last.pre.txs[Caller]
           /\ events = last.pre.ev

\* an executeArb call whose swap sequence came back whole and was still
\* refused for its profit (Scenario D), after a successful deposit
C1_Witness ==
    /\ Called("executeArb") /\ ~last.ok
    /\ last.err = "Unprofitable: profit below minimum"
    /\ last.minProfit = MaxAmount
    /\ userBalances[Caller] > 0

\* C2: an executeArb call that fails at any point after the debit (wrap,
\* either swap leg reverting or returning 0, unwrap, final balance below the
\* initial one, profit below the minimum) leaves the whole ledger in its
\* pre-call state; the debit persists only together with the credit of
\* amountIn + profit.
C2_NoPartialExecution ==
    Called("executeArb") =>
        IF last.ok
        THEN userBalances[Caller] =
                 (last.pre.bal[Caller] - last.amount) + (last.amount + last.profit)
        ELSE Ledger = last.pre

AfterDebitErrors ==
    {"WETH deposit failed", "router reverted", "WETH->USDC swap failed",
     "USDC->WETH swap failed", "WETH withdraw failed", "Panic: underflow",
     "Unprofitable: profit below minimum"}

\* an executeArb call that got through both swap legs and the unwrap step
\* and then failed because the final balance was below the initial one
C2_Witness ==
    /\ Called("executeArb") /\ ~last.ok
    /\ last.err = "Panic: underflow"
    /\ last.err \in AfterDebitErrors

\* C3: a withdraw call with amount above the caller's balance never succeeds,
\* and leaves the caller's balance and the contract's native balance
\* unchanged and emits nothing.
C3_WithdrawNeverOverdraws ==
    (Called("withdraw") /\ last.amount > last.pre.bal[Caller]) =>
        /\ ~last.ok
        /\ userBalances[Caller] = last.pre.bal[Caller]
        /\ ethBalance = last.pre.eth
        /\ events = last.pre.ev

\* a withdraw call above the caller's balance while the contract holds
\* enough native asset (another user's deposit) to pay it
C3_Witness ==
    /\ Called("withdraw")
    /\ last.amount > last.pre.bal[Caller]
    /\ last.pre.eth >= last.amount

\* C4: an executeArb call with amountIn above the caller's balance fails with
\* the insufficient-balance error (the check comes before every swap step)
\* and leaves the ledger unchanged.
C4_ArbInsufficientBalance ==
    (Called("executeArb") /\ last.amount > last.pre.bal[Caller]) =>
        /\ ~last.ok
        /\ last.err = "Insufficient balance"
        /\ Ledger = last.pre

\* an executeArb call above the caller's positive balance
C4_Witness ==
    /\ Called("executeArb")
    /\ last.pre.bal[Caller] > 0
    /\ last.amount > last.pre.bal[Caller]

\* C5: a withdraw(X) made by a user whose previous call was a successful
\* deposit(X) (other users may have called in between) succeeds and leaves
\* the user's balance at its value before the deposit.
C5_RoundTripRestores ==
    (Called("withdraw") /\ last.rt.open /\ last.amount = last.rt.amount) =>
        /\ last.ok
        /\ userBalances[Caller] = last.rt.pre

\* C6: after a successful executeArb the caller's balance is the balance
\* before plus the profit, the caller's log has grown by exactly the record
\* {amountIn, profit, fixed path}, and exactly one ArbitrageExecuted event was
\* emitted, the last one, carrying the contract's native balance before and
\* after the swap sequence and the same profit.
C6_SuccessEffects ==
    (Called("executeArb") /\ last.ok) =>
        /\ userBalances[Caller] = last.pre.bal[Caller] + last.profit
        /\ userTransactions[Caller] =
               Append(last.pre.txs[Caller],
                      Transaction(last.amount, last.profit, TRUE))
        /\ Len(ArbEvents(events)) = Len(ArbEvents(last.pre.ev)) + 1
        /\ events[Len(events)] =
               ArbitrageExecuted(Caller, last.pre.eth, ethBalance, last.profit)
        /\ ethBalance - last.pre.eth = last.profit

\* a successful executeArb with a positive profit
C6_Witness ==
    /\ Called("executeArb") /\ last.ok
    /\ last.profit > 0

C8_WithdrawAlwaysPossible ==
    (Called("withdraw") /\ 0 < last.amount /\ last.amount <= last.pre.bal[Caller]) =>
        /\ last.ok
        /\ userBalances[Caller] = last.pre.bal[Caller] - last.amount
        /\ ethBalance = last.pre.eth - last.amount


\* the sum of the recorded balances of a set of accounts
RECURSIVE Recorded(_)
Recorded(as) ==
    IF as = {} THEN 0
    ELSE LET a == CHOOSE x \in as : TRUE
         IN  userBalances[a] + Recorded(as \ {a})

\* C27: after any sequence of deposits, plain transfers, withdrawals and
\* executions by any users, successful or reverted, the recorded balances of
\* the users together never exceed the native asset the contract holds.
C27_Solvent == Recorded(Users) <= ethBalance

\* the Deposited events of an event history
IsDeposited(e) == e.type = "Deposited"

\* C28: a deposit, withdraw or executeArb call by account u changes only
\* u's recorded balance and u's log; balance and log of every other
\* account, the wrapped-asset contract included, are as before the call,
\* and the call emits a Deposited event only when it is a deposit, naming u.
C28_OnlyCallerChanges ==
    last.op \in {"deposit", "withdraw", "executeArb"} =>
        /\ \A a \in Accounts \ {Caller} :
              /\ userBalances[a] = last.pre.bal[a]
              /\ userTransactions[a] = last.pre.txs[a]
        /\ SelectSeq(events, IsDeposited)
             = IF last.op = "deposit" /\ last.ok
               THEN Append(SelectSeq(last.pre.ev, IsDeposited),
                           Deposited(Caller, last.amount))
               ELSE SelectSeq(last.pre.ev, IsDeposited)


\* ================================================ decision-endpoint claims
\* the request being decided carries the required fields, and its optional
\* risk fields are absent or risk levels
HasRequired ==
    /\ ~IsUndefined(body.netProfitUsd) /\ ~IsUndefined(body.spreadPercent)
    /\ body.slippageRisk \in DeclaredRisks
    /\ body.mevRisk \in DeclaredRisks
    /\ body.timingRisk \in DeclaredRisks

Decided == phase = "done" /\ HasRequired

\* C9: a request with netProfitUsd <= 0 is answered without the advisory
\* capability, with verdict SKIP and confidence exactly 1.0, whatever its
\* spread and its supplied or inferred risk levels.
C9_NonPositiveProfitSkips ==
    (phase # "idle" /\ HasRequired /\ body.netProfitUsd.v <= 0) =>
        /\ phase = "done"
        /\ response.decision = "SKIP"
        /\ response.confidence = Num(100)
        /\ ~response.consulted

\* a request with zero profit, an anomalous spread and all risks supplied
\* as LOW, answered
C9_Witness ==
    /\ Decided
    /\ body.netProfitUsd.v = 0
    /\ body.spreadPercent.v > 5
    /\ body.slippageRisk = "LOW" /\ body.mevRisk = "LOW" /\ body.timingRisk = "LOW"

\* C10: the first gate check that matches, in the order netProfitUsd <= 0,
\* netProfitUsd < 2, spreadPercent > 5, alone determines the reason and the
\* confidence of the Decision, whatever the later checks would say.
C10_GateOrder ==
    Decided =>
        IF body.netProfitUsd.v <= 0
        THEN /\ response.reason = "Net profit is negative or zero"
             /\ response.confidence = Num(100)
             /\ response.decision = "SKIP"
        ELSE IF body.netProfitUsd.v < 2
        THEN /\ response.reason = "Net profit below $2 minimum threshold"
             /\ response.confidence = Num(95)
             /\ response.decision = "SKIP"
        ELSE IF body.spreadPercent.v > 5
        THEN /\ response.reason = "Spread >5% appears anomalous - possible bad data"
             /\ response.confidence = Num(90)
             /\ response.decision = "SKIP"
        ELSE response.reason \notin
                 {"Net profit is negative or zero",
                  "Net profit below $2 minimum threshold",
                  "Spread >5% appears anomalous - possible bad data"}

\* a request with 0 < netProfitUsd < 2 and spreadPercent > 5, answered with
\* the below-minimum reason
C10_Witness ==
    /\ Decided
    /\ body.netProfitUsd.v > 0 /\ body.netProfitUsd.v < 2
    /\ body.spreadPercent.v > 5
    /\ response.reason = "Net profit below $2 minimum threshold"


\* both required fields of the request being decided are present
HasFields == ~IsUndefined(body.netProfitUsd) /\ ~IsUndefined(body.spreadPercent)

\* C11 (as stated): a request with spreadPercent > 5 is answered SKIP with
\* the anomalous-spread reason, whatever its netProfitUsd.
C11_AnomalousSpreadReasonAlways ==
    (Decided /\ body.spreadPercent.v > 5) =>
        /\ response.decision = "SKIP"
        /\ response.reason = "Spread >5% appears anomalous - possible bad data"

\* C11 (amended): a request with spreadPercent > 5 is answered SKIP without
\* the advisory capability, whatever its netProfitUsd; the reason is the
\* anomalous-spread reason when netProfitUsd >= 2, and the reason of the
\* profit check that matched first otherwise.
C11_AnomalousSpreadSkips ==
    (Decided /\ body.spreadPercent.v > 5) =>
        /\ response.decision = "SKIP"
        /\ ~response.consulted
        /\ response.reason =
               IF body.netProfitUsd.v <= 0
               THEN "Net profit is negative or zero"
               ELSE IF body.netProfitUsd.v < 2
               THEN "Net profit below $2 minimum threshold"
               ELSE "Spread >5% appears anomalous - possible bad data"

\* a request with a spread above the ceiling and the largest profit, answered
C11_Witness ==
    /\ Decided
    /\ body.spreadPercent.v > 5
    /\ body.netProfitUsd.v = MaxNet
    /\ response.reason = "Spread >5% appears anomalous - possible bad data"

\* C12: whenever a gate condition holds (netProfitUsd <= 0, netProfitUsd < 2
\* or spreadPercent > 5) the request is answered SKIP and the advisory
\* capability is not consulted; every response with verdict EXECUTE belongs
\* to a request with netProfitUsd >= 2 and spreadPercent <= 5.
C12_GateNotOverridden ==
    /\ (phase # "idle" /\ HasFields
            /\ (body.netProfitUsd.v <= 0 \/ body.netProfitUsd.v < 2
                    \/ body.spreadPercent.v > 5)) =>
           /\ phase = "done"
           /\ response.decision = "SKIP"
           /\ ~response.consulted
    /\ (phase = "done" /\ response.decision = "EXECUTE") =>
           /\ HasFields
           /\ body.netProfitUsd.v >= 2
           /\ body.spreadPercent.v <= 5

\* the advisory capability answered EXECUTE for a request right at the edge
\* of the gate
C12_Witness ==
    /\ phase = "done" /\ path = "advisory"
    /\ response.decision = "EXECUTE"
    /\ body.netProfitUsd.v = 2
    /\ body.spreadPercent.v = 5

\* C13: a response of the rule-based fallback is EXECUTE if and only if
\* netProfitUsd >= 5, all three risk levels are low and the margin is safe,
\* and then has confidence 0.75; otherwise it is SKIP.
C13_FallbackRule ==
    (phase = "done" /\ path \in FallbackPaths) =>
        LET a == response.riskAnalysis
            allLow == a.gasRisk = "low" /\ a.slippageRisk = "low" /\ a.mevRisk = "low"
        IN  /\ a = Analysis(body)
            /\ response.decision \in {"EXECUTE", "SKIP"}
            /\ response.decision = "EXECUTE" <=>
                   (body.netProfitUsd.v >= 5 /\ allLow /\ a.profitMargin = "safe")
            /\ response.decision = "EXECUTE" => response.confidence = Num(75)

\* Scenario B: the fallback executes a request with netProfitUsd = 6, all
\* risks low and a safe margin
C13_Witness ==
    /\ phase = "done" /\ path \in FallbackPaths
    /\ body.netProfitUsd.v = 6
    /\ response.decision = "EXECUTE"
    /\ response.confidence = Num(75)

\* C14: when the advisory capability is unconfigured, throws, or answers
\* with a text that holds no JSON object or does not parse, the request is
\* answered successfully with the Decision the rule-based fallback computes
\* for the same request, whose reason is not empty.
C14_FailureFallsBack ==
    (phase = "done" /\ path \in FallbackPaths) =>
        /\ Gate(body).decision = "pass"
        /\ response.status = 200 /\ response.success
        /\ response = Fallback(body, response.consulted)
        /\ response.reason # ""

\* generateContent threw for a request that had passed the gate
C14_Witness ==
    /\ phase = "done" /\ path = "throws"
    /\ response.consulted

\* C15: every response has verdict EXECUTE or SKIP.
C15_VerdictInSchema ==
    phase = "done" => response.decision \in {"EXECUTE", "SKIP"}

\* C16: every response carries a confidence that is a number of [0, 1].
C16_ConfidenceInUnitInterval ==
    phase = "done" =>
        /\ response.confidence.t = "number"
        /\ response.confidence.v >= 0 /\ response.confidence.v <= 100

\* C17: a request that waits for the advisory capability is eventually
\* answered, also when generateContent never settles.
C17_DecisionEventually == (phase = "advisory") ~> (phase = "done")

\* netProfitUsd / gasCostUsd >= k, for gasCostUsd >= 0: a positive profit
\* over a gas cost of zero is an unbounded ratio
RatioAtLeast(k) ==
    IF body.gasCostUsd > 0 THEN body.netProfitUsd.v >= k * body.gasCostUsd
    ELSE body.netProfitUsd.v > 0

\* C22 (as stated): the profit-margin class is given by netProfitUsd /
\* gasCostUsd for every gasCostUsd >= 0, a gas cost of zero included: safe
\* from 5, acceptable from 3, thin below.
C22_MarginByRatioAnyGas ==
    Decided =>
        response.riskAnalysis.profitMargin
          = IF RatioAtLeast(5) THEN "safe"
            ELSE IF RatioAtLeast(3) THEN "acceptable"
            ELSE "thin"

\* C22 (amended): for gasCostUsd > 0 the class is given by netProfitUsd /
\* gasCostUsd, safe from 5, acceptable from 3, thin below; for a gas cost
\* of zero it is thin whatever the profit.
C22_MarginByRatio ==
    Decided =>
        LET margin == response.riskAnalysis.profitMargin
            net == body.netProfitUsd.v
            gas == body.gasCostUsd
        IN  /\ margin = "safe" <=> gas > 0 /\ net >= 5 * gas
            /\ margin = "acceptable" <=>
                  gas > 0 /\ net >= 3 * gas /\ net < 5 * gas
            /\ margin \in {"safe", "acceptable", "thin"}

\* a request with a positive profit and no gas cost is classed thin
C22_Witness ==
    /\ Decided
    /\ body.gasCostUsd = 0
    /\ body.netProfitUsd.v > 0
    /\ response.riskAnalysis.profitMargin = "thin"

\* C29: when the timing risk is inferred rather than supplied, a request
\* with netProfitUsd > 0 whose profit margin is classed safe has the timing
\* risk low.
C29_SafeMarginHasLowTimingRisk ==
    (/\ Decided
     /\ body.timingRisk = "undefined"
     /\ body.netProfitUsd.v > 0
     /\ response.riskAnalysis.profitMargin = "safe")
        => response.riskAnalysis.gasRisk = "low"

\* a decided request with a safe margin and no timing risk supplied
C29_Witness ==
    /\ Decided
    /\ body.timingRisk = "undefined"
    /\ body.netProfitUsd.v > 0
    /\ body.gasCostUsd > 0
    /\ response.riskAnalysis.profitMargin = "safe"
    /\ response.riskAnalysis.gasRisk = "low"

\* ================================================ estimate-endpoint claims
\* a cycle that passed the validation has been joined
Joined == cycle = "done" /\ estimate.status # 400

\* the estimators whose failure must not abort the cycle
NonCritical == {"mev", "bridgeSlippage"}

PricesUsed ==
    {tasks[k].price :
        k \in {j \in Estimators : tasks[j].state = "fulfilled"
                                     /\ tasks[j].price # 0}}
    \cup {MockEthPrice}

\* C19: within one cycle a single ETH/USD value is used by all cost
\* estimators and by the gross-profit computation: the components of a
\* successful estimate were all converted with the same value.
C19_SingleReferencePrice ==
    Joined /\ estimate.success => Cardinality(PricesUsed) = 1

\* C20: for every successful estimate netProfitUsd is grossProfitUsd minus
\* gasCostUsd + slippageUsd + feesUsd + bridgingFeesUsd, slippageUsd is the
\* bridge slippage plus the AMM slippage, and the reported components are the
\* values the estimators returned, which are the ones subtracted.
C20_NetIsGrossMinusCosts ==
    Joined /\ estimate.success =>
        LET p == Promises(tasks)
        IN  /\ estimate.grossProfitUsd = GrossProfit(amountFloat)
            /\ estimate.netProfitUsd
                 = estimate.grossProfitUsd
                   - (estimate.gasCostUsd + estimate.slippageUsd
                      + estimate.feesUsd + estimate.bridgingFeesUsd)
            /\ estimate.slippageUsd
                 = p.bridgeSlippage.usd + p.ammSlippage.usd
            /\ estimate.gasCostUsd = p.gas.usd
            /\ estimate.feesUsd = p.mev.usd
            /\ estimate.bridgingFeesUsd = p.bridging.usd

\* a successful estimate in which every component costs something
C20_Witness ==
    /\ cycle = "done"
    /\ estimate.success
    /\ estimate.gasCostUsd > 0
    /\ tasks["bridgeSlippage"].usd > 0
    /\ tasks["ammSlippage"].usd > 0
    /\ estimate.feesUsd > 0
    /\ estimate.bridgingFeesUsd > 0
    /\ estimate.netProfitUsd < estimate.grossProfitUsd

\* what the fee data and the quote were when an estimator read them,
\* recovered from what it returned
ReadByGasLeg(r) == [market EXCEPT !.gas = r.eth]

ReadByBridging(r) ==
    [gas   |-> r.eth - r.relayerFee,
     quote |-> IF r.quoted THEN [ok |-> TRUE, total |-> r.relayerFee]
               ELSE [ok |-> FALSE, total |-> 0]]

ReadByBridgeSlippage(r) ==
    [market EXCEPT !.quote = [ok |-> ~r.defaulted, total |-> r.eth]]

\* the promises of a second call with the same amount that finds the same
\* fee data, quotes and pool as the joined one, and in which no read of the
\* ETH/USD price fails
SecondCall ==
    [tasks EXCEPT
        !["gasDeposit"] =
            calculateBaseDepositGasFees(ReadByGasLeg(@), TRUE, TRUE),
        !["gasSwap"] =
            calculateArbitrumSwapGasFees(ReadByGasLeg(@), TRUE, TRUE),
        !["bridging"] =
            getBridgingFees(
                calculateAcrossBridgeFees(amountFloat, ReadByBridging(@),
                                          TRUE, TRUE)),
        !["bridgeSlippage"] =
            bridgeSlippage(
                calculateAcrossBridgeSlippage(amountFloat,
                                              ReadByBridgeSlippage(@), TRUE))]

\* the CostBreakdown and the net profit of a response
Breakdown(e) ==
    <<e.gasCostUsd, e.slippageUsd, e.feesUsd, e.bridgingFeesUsd,
      e.netProfitUsd>>

\* C21: two calls with the same amount, made while the pool and the fee
\* market are unchanged, return the same CostBreakdown and the same
\* netProfitUsd, whether or not a price read fails and takes its fallback in
\* one of them: a successful estimate equals the one of a second call on
\* the same data in which no price read fails.
C21_Idempotent ==
    Joined /\ estimate.success =>
        Breakdown(estimate)
          = Breakdown(Aggregate(amountFloat, Promises(SecondCall)))

C23_CheaperVenueBuys ==
    detecting = "done" =>
        /\ opportunity.success <=>
              \A c \in Chains : poolData[c].state = "fulfilled"
        /\ opportunity.success =>
              /\ opportunity.buyChain # opportunity.sellChain
              /\ opportunity.buyPrice = poolData[opportunity.buyChain].price
              /\ opportunity.sellPrice = poolData[opportunity.sellChain].price
              /\ opportunity.buyPrice <= opportunity.sellPrice
              /\ opportunity.found = opportunity.actionable
              /\ opportunity.actionable
                    => opportunity.spreadPct >= MIN_SPREAD_PCT
        /\ ~opportunity.success =>
              ~opportunity.found /\ ~opportunity.actionable

\* a successful response for two pools that show the same price
C23_Witness ==
    /\ detecting = "done"
    /\ opportunity.success
    /\ poolData["base"].price = poolData["arbitrum"].price
    /\ opportunity.buyChain = "arbitrum"
    /\ ~opportunity.actionable

\* ============================================== liquidity-service claims
\* the two-factor score of a USD liquidity (in millions) and a tick count
Score(usd, ticks) ==
    (IF usd >= 5 THEN 2 ELSE IF usd >= 1 THEN 1 ELSE 0)
    + (IF ticks >= 30 THEN 2 ELSE IF ticks >= 10 THEN 1 ELSE 0)

\* C25: the liquidity depth is classified by the two-factor score of the
\* USD liquidity and the populated-tick count handed to the classifier: a
\* total of 3 or more is high, of 1 or 2 medium, of 0 low, for every
\* combination of the two.
C25_TwoFactorScore ==
    reading = "done" =>
        LET score == Score(liquidityUSD, Length(liquidityDepthData))
        IN  depthCategory = IF score >= 3 THEN "high"
                            ELSE IF score >= 1 THEN "medium"
                            ELSE "low"

\* C26: getLiquidityDepth returns one entry for exactly the queried ticks
\* whose gross liquidity is positive; ticks without liquidity and ticks
\* whose read failed contribute no element, so the length of the result is
\* the count of populated ticks.
C26_OnlyPopulatedTicks ==
    reading \in {"read", "done"} =>
        /\ liquidityDepthData["entry"] = window["positive"]
        /\ Length(liquidityDepthData) = window["positive"]

\* ================================================== price-stream claims
\* C30: the price stream stops when the client disconnects: whenever the
\* abort arrives, the first fetch still being awaited included, no price
\* fetch is started for the connection after it.
C30_NoFetchAfterAbort == lateFetches = 0

====
